---- MODULE Spec2Model ----
(***************************************************************************)
(* A model of the hook package of cycloidio/webhook: the rule evaluator    *)
(* (rules.go), the parameter and argument resolvers, the signature         *)
(* verifier and the hook extraction glue.                                  *)
(*                                                                         *)
(* Go strings are modelled as sequences of one-character strings, so that  *)
(* strings.SplitN, strings.HasPrefix, strconv.ParseUint, fmt.Sprintf,      *)
(* json.Marshal and the JSON decoder are computed character by character.  *)
(* A Go pointer is a sequence of length 0 (nil) or 1 (the pointee).        *)
(* A run-time panic (failed type assertion, index out of range) is the     *)
(* outcome flag "panic" of the operation that raises it.                   *)
(***************************************************************************)
EXTENDS Integers, Sequences, FiniteSets, TLC

VARIABLES headers, query, payload, body, last, mutations

vars == <<headers, query, payload, body, last, mutations>>

(***************************************************************************)
(* Characters and strings                                                  *)
(***************************************************************************)

DQ == "\""

BS == "\\"

\* The printable ASCII characters the model's strings are made of, in
\* byte order.
Ascii ==
    <<
      " ", DQ, "$", "&", "(", ")", ",", "-", ".", "/", "0", "1", "2",
      "3", "4", "5", "6", "7", "8", "9", ":", "<", "=", ">", "A", "B",
      "C", "D", "E", "F", "G", "H", "I", "J", "K", "L", "M", "N", "O",
      "P", "Q", "R", "S", "T", "U", "V", "W", "X", "Y", "Z", "[", BS,
      "]", "^", "_", "a", "b", "c", "d", "e", "f", "g", "h", "i", "j",
      "k", "l", "m", "n", "o", "p", "q", "r", "s", "t", "u", "v", "w",
      "x", "y", "z", "{", "}" >>

CharOrd(c) == CHOOSE i \in 1..Len(Ascii) : Ascii[i] = c

Digits == {"0", "1", "2", "3", "4", "5", "6", "7", "8", "9"}

DigitVal(c) == CharOrd(c) - CharOrd("0")

\* Byte-wise lexicographic order of Go strings (sort.Strings).
RECURSIVE StrLess(_, _)
StrLess(a, b) ==
    IF b = <<>> THEN FALSE
    ELSE IF a = <<>> THEN TRUE
    ELSE IF Head(a) = Head(b) THEN StrLess(Tail(a), Tail(b))
    ELSE CharOrd(Head(a)) < CharOrd(Head(b))

\* strings.HasPrefix
HasPrefix(s, prefix) ==
    Len(s) >= Len(prefix) /\ SubSeq(s, 1, Len(prefix)) = prefix

\* strings.SplitN(s, ".", 2)
SplitN2(s) ==
    IF \E i \in 1..Len(s) : s[i] = "."
    THEN LET i == CHOOSE i \in 1..Len(s) :
                      s[i] = "." /\ \A j \in 1..(i - 1) : s[j] /= "."
         IN  <<SubSeq(s, 1, i - 1), SubSeq(s, i + 1, Len(s))>>
    ELSE <<s>>

\* The keys of a Go map in sorted order (fmt and encoding/json both sort).
RECURSIVE SortedKeys(_)
SortedKeys(ks) ==
    IF ks = {} THEN <<>>
    ELSE LET k == CHOOSE k \in ks : \A o \in ks \ {k} : StrLess(k, o)
         IN  <<k>> \o SortedKeys(ks \ {k})

(***************************************************************************)
(* strconv.ParseUint(s, 10, 64) and the conversions of its result.  A      *)
(* uint64 is kept as little-endian limbs of 16 bits, so that the values    *)
(* around 2^63 and 2^64 are computed exactly.                              *)
(***************************************************************************)

UintBits == 64

LimbBase == 2 ^ 16

NumLimbs == UintBits \div 16

ZeroLimbs == [i \in 1..NumLimbs |-> 0]

\* limbs * mul + carry; the last element of the result is the carry out.
RECURSIVE MulAdd(_, _, _)
MulAdd(limbs, mul, carry) ==
    IF limbs = <<>> THEN <<carry>>
    ELSE LET t == Head(limbs) * mul + carry
         IN  <<t % LimbBase>> \o MulAdd(Tail(limbs), mul, t \div LimbBase)

RECURSIVE ParseUintFrom(_, _)
ParseUintFrom(s, acc) ==
    IF s = <<>> THEN [err |-> FALSE, n |-> acc]
    ELSE IF Head(s) \notin Digits THEN [err |-> TRUE, n |-> ZeroLimbs]
    ELSE LET r == MulAdd(acc, 10, DigitVal(Head(s)))
         IN  IF r[NumLimbs + 1] > 0
             THEN [err |-> TRUE, n |-> ZeroLimbs]      \* ErrRange
             ELSE ParseUintFrom(Tail(s), SubSeq(r, 1, NumLimbs))

\* err is TRUE for the empty string, a non-digit, or a value above 2^64 - 1.
ParseUint(s) ==
    IF s = <<>> THEN [err |-> TRUE, n |-> ZeroLimbs]
    ELSE ParseUintFrom(s, ZeroLimbs)

\* int(index) < 0: the conversion of a uint64 with the top bit set.
IntIsNegative(n) == n[NumLimbs] >= LimbBase \div 2

\* paramsValueSliceLength <= int(index), for a slice length below 2^16.
LenLeqInt(length, n) ==
    IF IntIsNegative(n) THEN FALSE
    ELSE (\E i \in 2..NumLimbs : n[i] > 0) \/ length <= n[1]

\* The run-time bounds check of slice[index] with a uint64 index.
IndexInRange(length, n) ==
    (\A i \in 2..NumLimbs : n[i] = 0) /\ n[1] < length

(***************************************************************************)
(* interface{} values: the trees of headers, query and payload             *)
(***************************************************************************)

Nil == [k |-> "nil"]

Str(s) == [k |-> "string", s |-> s]

Num(d) == [k |-> "number", d |-> d]              \* json.Number

Bool(b) == [k |-> "bool", b |-> b]

Map(m) == [k |-> "map", m |-> m]                 \* map[string]interface{}

NilMap == [k |-> "nilmap"]                       \* a nil map[string]interface{}

Slice(l) == [k |-> "slice", l |-> l]             \* []interface{}

PtrMap(m) == [k |-> "ptr", m |-> m]              \* *map[string]interface{}

EmptyMap == [x \in {} |-> Nil]

\* params.(map[string]interface{}) succeeds
IsMap(v) == v.k \in {"map", "nilmap"}

MapOf(v) == IF v.k = "map" THEN v.m ELSE EmptyMap

\* strings.Join(parts, sep)
RECURSIVE Join(_, _)
Join(parts, sep) ==
    IF parts = <<>> THEN <<>>
    ELSE IF Len(parts) = 1 THEN parts[1]
    ELSE parts[1] \o sep \o Join(Tail(parts), sep)

\* fmt.Sprintf("%v", v)
RECURSIVE Sprint(_)
Sprint(v) ==
    CASE v.k = "nil"    -> <<"<", "n", "i", "l", ">">>
      [] v.k = "string" -> v.s
      [] v.k = "number" -> v.d
      [] v.k = "bool"   -> IF v.b THEN <<"t", "r", "u", "e">>
                                  ELSE <<"f", "a", "l", "s", "e">>
      [] v.k = "nilmap" -> <<"m", "a", "p", "[", "]">>
      [] v.k = "map"    ->
            LET ks == SortedKeys(DOMAIN v.m)
            IN  <<"m", "a", "p", "[">>
                \o Join([i \in 1..Len(ks) |->
                            ks[i] \o <<":">> \o Sprint(v.m[ks[i]])], <<" ">>)
                \o <<"]">>
      [] v.k = "slice"  ->
            <<"[">>
            \o Join([i \in 1..Len(v.l) |-> Sprint(v.l[i])], <<" ">>)
            \o <<"]">>

(***************************************************************************)
(* GetParameter (rules.go)                                                 *)
(***************************************************************************)

Found(v) == [v |-> v, ok |-> TRUE, panic |-> FALSE]

NotFound == [v |-> Nil, ok |-> FALSE, panic |-> FALSE]

GetPanic == [v |-> Nil, ok |-> FALSE, panic |-> TRUE]

RECURSIVE GetParameter(_, _)
GetParameter(s, params) ==
    LET p == SplitN2(s) IN
    IF params.k = "nil" THEN NotFound
    ELSE IF params.k = "slice" THEN
        IF Len(params.l) > 0 THEN
            IF Len(p) > 1 THEN
                LET index == ParseUint(p[1]) IN
                IF index.err \/ LenLeqInt(Len(params.l), index.n) THEN NotFound
                ELSE IF ~IndexInRange(Len(params.l), index.n) THEN GetPanic
                ELSE GetParameter(p[2], params.l[index.n[1] + 1])
            ELSE
                LET index == ParseUint(s) IN
                IF index.err \/ LenLeqInt(Len(params.l), index.n) THEN NotFound
                ELSE IF ~IndexInRange(Len(params.l), index.n) THEN GetPanic
                ELSE Found(params.l[index.n[1] + 1])
        ELSE NotFound
    ELSE IF Len(p) > 1 THEN
        IF IsMap(params) THEN
            IF p[1] \in DOMAIN MapOf(params)
            THEN GetParameter(p[2], MapOf(params)[p[1]])
            ELSE NotFound
        ELSE NotFound
    ELSE
        IF ~IsMap(params) THEN GetPanic          \* params.(map[string]interface{})
        ELSE IF p[1] \in DOMAIN MapOf(params) THEN Found(MapOf(params)[p[1]])
        ELSE NotFound

\* ExtractParameterAsString
ExtractParameterAsString(s, params) ==
    LET r == GetParameter(s, params) IN
    IF r.panic THEN [s |-> <<>>, ok |-> FALSE, panic |-> TRUE]
    ELSE IF r.ok THEN [s |-> Sprint(r.v), ok |-> TRUE, panic |-> FALSE]
    ELSE [s |-> <<>>, ok |-> FALSE, panic |-> FALSE]

(***************************************************************************)
(* ReplaceParameter (rules.go).  The result carries the value of params    *)
(* after the call: params is mutated in place only through a               *)
(* *map[string]interface{}.                                                *)
(***************************************************************************)

ReplaceRet(ret, params) == [ret |-> ret, panic |-> FALSE, params |-> params]

ReplacePanic(params) == [ret |-> FALSE, panic |-> TRUE, params |-> params]

RECURSIVE ReplaceParameter(_, _, _)
ReplaceParameter(s, params, value) ==
    LET p == SplitN2(s) IN
    IF params.k = "nil" THEN ReplaceRet(FALSE, params)
    ELSE IF params.k = "slice" THEN
        IF Len(params.l) > 0 /\ Len(p) > 1 THEN
            LET index == ParseUint(p[1]) IN
            IF index.err \/ LenLeqInt(Len(params.l), index.n)
            THEN ReplaceRet(FALSE, params)
            ELSE IF ~IndexInRange(Len(params.l), index.n)
            THEN ReplacePanic(params)
            ELSE LET i == index.n[1] + 1
                     r == ReplaceParameter(p[2], params.l[i], value)
                 IN  [r EXCEPT !.params = Slice([params.l EXCEPT ![i] = r.params])]
        ELSE ReplaceRet(FALSE, params)
    ELSE IF Len(p) > 1 THEN
        IF ~IsMap(params) THEN ReplacePanic(params)   \* params.(map[string]interface{})
        ELSE IF p[1] \in DOMAIN MapOf(params) THEN
            LET r == ReplaceParameter(p[2], MapOf(params)[p[1]], value)
            IN  [r EXCEPT !.params = Map([params.m EXCEPT ![p[1]] = r.params])]
        ELSE ReplaceRet(FALSE, params)
    ELSE
        IF params.k /= "ptr" THEN ReplacePanic(params) \* params.(*map[string]interface{})
        ELSE IF p[1] \in DOMAIN params.m
        THEN ReplaceRet(TRUE, PtrMap([params.m EXCEPT ![p[1]] = value]))
        ELSE ReplaceRet(FALSE, params)

(***************************************************************************)
(* encoding/json: Marshal, and Decoder.Decode into a                       *)
(* map[string]interface{} with UseNumber.  The decoder is exact on texts   *)
(* without white space whose only escapes are \", \\ and \/.               *)
(***************************************************************************)

JsonEscape(c) ==
    CASE c = DQ  -> <<BS, DQ>>
      [] c = BS  -> <<BS, BS>>
      [] c = "<" -> <<BS, "u", "0", "0", "3", "c">>
      [] c = ">" -> <<BS, "u", "0", "0", "3", "e">>
      [] c = "&" -> <<BS, "u", "0", "0", "2", "6">>
      [] OTHER   -> <<c>>

JsonQuote(s) ==
    <<DQ>> \o Join([i \in 1..Len(s) |-> JsonEscape(s[i])], <<>>) \o <<DQ>>

RECURSIVE Marshal(_)
Marshal(v) ==
    CASE v.k \in {"nil", "nilmap"} -> <<"n", "u", "l", "l">>
      [] v.k = "string" -> JsonQuote(v.s)
      [] v.k = "number" -> v.d
      [] v.k = "bool"   -> IF v.b THEN <<"t", "r", "u", "e">>
                                  ELSE <<"f", "a", "l", "s", "e">>
      [] v.k = "map"    ->
            LET ks == SortedKeys(DOMAIN v.m)
            IN  <<"{">>
                \o Join([i \in 1..Len(ks) |->
                            JsonQuote(ks[i]) \o <<":">> \o Marshal(v.m[ks[i]])],
                        <<",">>)
                \o <<"}">>
      [] v.k = "slice"  ->
            <<"[">>
            \o Join([i \in 1..Len(v.l) |-> Marshal(v.l[i])], <<",">>)
            \o <<"]">>

\* json.Marshal of a *map[string]interface{}
MarshalPtr(ptr) == IF ptr = <<>> THEN <<"n", "u", "l", "l">> ELSE Marshal(Map(ptr[1]))

ParseFail == [ok |-> FALSE, v |-> Nil, rest |-> <<>>]

ParseOk(v, rest) == [ok |-> TRUE, v |-> v, rest |-> rest]

\* The text after an opening quote, up to the closing one.
RECURSIVE ScanString(_, _)
ScanString(s, acc) ==
    IF s = <<>> THEN ParseFail
    ELSE IF Head(s) = DQ THEN ParseOk(acc, Tail(s))
    ELSE IF Head(s) = BS THEN
        IF Len(s) >= 2 /\ s[2] \in {DQ, BS, "/"}
        THEN ScanString(SubSeq(s, 3, Len(s)), Append(acc, s[2]))
        ELSE ParseFail
    ELSE ScanString(Tail(s), Append(acc, Head(s)))

RECURSIVE DigitRun(_)
DigitRun(s) ==
    IF s /= <<>> /\ Head(s) \in Digits THEN <<Head(s)>> \o DigitRun(Tail(s)) ELSE <<>>

\* -?(0|[1-9][0-9]*)
ScanNumber(s) ==
    LET neg  == s /= <<>> /\ Head(s) = "-"
        t    == IF neg THEN Tail(s) ELSE s
        sign == IF neg THEN <<"-">> ELSE <<>>
    IN  IF t = <<>> \/ Head(t) \notin Digits THEN ParseFail
        ELSE IF Head(t) = "0" THEN ParseOk(Num(sign \o <<"0">>), Tail(t))
        ELSE LET d == DigitRun(t)
             IN  ParseOk(Num(sign \o d), SubSeq(t, Len(d) + 1, Len(t)))

ScanLiteral(s) ==
    IF HasPrefix(s, <<"t", "r", "u", "e">>)
    THEN ParseOk(Bool(TRUE), SubSeq(s, 5, Len(s)))
    ELSE IF HasPrefix(s, <<"f", "a", "l", "s", "e">>)
    THEN ParseOk(Bool(FALSE), SubSeq(s, 6, Len(s)))
    ELSE IF HasPrefix(s, <<"n", "u", "l", "l">>)
    THEN ParseOk(Nil, SubSeq(s, 5, Len(s)))
    ELSE ParseFail

RECURSIVE ParseValue(_)
RECURSIVE ParseMembers(_, _)
RECURSIVE ParseElements(_, _)

ParseValue(s) ==
    IF s = <<>> THEN ParseFail
    ELSE IF Head(s) = "{" THEN
        IF Len(s) >= 2 /\ s[2] = "}"
        THEN ParseOk(Map(EmptyMap), SubSeq(s, 3, Len(s)))
        ELSE ParseMembers(Tail(s), EmptyMap)
    ELSE IF Head(s) = "[" THEN
        IF Len(s) >= 2 /\ s[2] = "]"
        THEN ParseOk(Slice(<<>>), SubSeq(s, 3, Len(s)))
        ELSE ParseElements(Tail(s), <<>>)
    ELSE IF Head(s) = DQ THEN
        LET r == ScanString(Tail(s), <<>>)
        IN  IF r.ok THEN ParseOk(Str(r.v), r.rest) ELSE ParseFail
    ELSE IF Head(s) \in Digits \cup {"-"} THEN ScanNumber(s)
    ELSE ScanLiteral(s)

\* "key":value ( ,"key":value )* }   -- a repeated key keeps the last value
ParseMembers(s, acc) ==
    IF s = <<>> \/ Head(s) /= DQ THEN ParseFail
    ELSE LET key == ScanString(Tail(s), <<>>) IN
         IF ~key.ok \/ key.rest = <<>> \/ Head(key.rest) /= ":" THEN ParseFail
         ELSE LET val == ParseValue(Tail(key.rest)) IN
              IF ~val.ok \/ val.rest = <<>> THEN ParseFail
              ELSE LET m == [x \in DOMAIN acc \cup {key.v} |->
                                IF x = key.v THEN val.v ELSE acc[x]]
                   IN  IF Head(val.rest) = "}" THEN ParseOk(Map(m), Tail(val.rest))
                       ELSE IF Head(val.rest) = ","
                       THEN ParseMembers(Tail(val.rest), m)
                       ELSE ParseFail

\* value ( ,value )* ]
ParseElements(s, acc) ==
    LET val == ParseValue(s) IN
    IF ~val.ok \/ val.rest = <<>> THEN ParseFail
    ELSE IF Head(val.rest) = "]"
    THEN ParseOk(Slice(Append(acc, val.v)), Tail(val.rest))
    ELSE IF Head(val.rest) = "," THEN ParseElements(Tail(val.rest), Append(acc, val.v))
    ELSE ParseFail

\* decoder.Decode(&newArg), newArg a map[string]interface{}: an object decodes
\* (what follows it in the stream is not read), null leaves newArg nil, every
\* other text is a syntax error or a type error.
DecodeObject(s) ==
    IF s /= <<>> /\ Head(s) = "{" THEN
        LET r == ParseValue(s)
        IN  IF r.ok THEN [err |-> FALSE, v |-> r.v] ELSE [err |-> TRUE, v |-> NilMap]
    ELSE IF s = <<"n", "u", "l", "l">> THEN [err |-> FALSE, v |-> NilMap]
    ELSE [err |-> TRUE, v |-> NilMap]

(***************************************************************************)
(* Argument.Get (rules.go)                                                 *)
(***************************************************************************)

SourceHeader == "header"

SourceQuery == "url"

SourcePayload == "payload"

SourceString == "string"

SourceEntirePayload == "entire-payload"

SourceEntireQuery == "entire-query"

SourceEntireHeaders == "entire-headers"

Argument(source, name) == [Source |-> source, Name |-> name]

ArgFound(s) == [s |-> s, ok |-> TRUE, panic |-> FALSE]

ArgumentGet(ha, hdrs, qry, pld) ==
    CASE ha.Source = SourceString        -> ArgFound(ha.Name)
      [] ha.Source = SourceEntirePayload -> ArgFound(MarshalPtr(pld))
      [] ha.Source = SourceEntireHeaders -> ArgFound(MarshalPtr(hdrs))
      [] ha.Source = SourceEntireQuery   -> ArgFound(MarshalPtr(qry))
      [] OTHER ->
            LET source == CASE ha.Source = SourceHeader  -> hdrs
                            [] ha.Source = SourceQuery   -> qry
                            [] ha.Source = SourcePayload -> pld
                            [] OTHER -> <<>>
            IN  IF source /= <<>>
                THEN ExtractParameterAsString(ha.Name, Map(source[1]))
                ELSE [s |-> <<>>, ok |-> FALSE, panic |-> FALSE]

(***************************************************************************)
(* Errors                                                                  *)
(***************************************************************************)

NoErr == [kind |-> "nil"]

SignatureError(signature) == [kind |-> "SignatureError", Signature |-> signature]

ArgumentError(argument) == [kind |-> "ArgumentError", Argument |-> argument]

SourceError(argument) == [kind |-> "SourceError", SourceArgument |-> argument]

ParseError == [kind |-> "ParseError"]

RegexpError(pattern) == [kind |-> "regexp.Error", Expr |-> pattern]

(***************************************************************************)
(* CheckPayloadSignature (rules.go)                                        *)
(***************************************************************************)

Sha1Prefix == <<"s", "h", "a", "1", "=">>

\* hex.EncodeToString(mac.Sum(nil)) for HMAC-SHA1 keyed with secret over
\* payload.  The digest itself is not computed: distinct (secret, payload)
\* pairs get distinct strings of lower-case hex digits.
HmacSha1Hex(secret, pld) ==
    <<IF secret = "s" THEN "a" ELSE "b",
      IF pld = "hello" THEN "1" ELSE "2",
      "f", "0">>

\* A faulty variant of CheckPayloadSignature that removes every leading
\* "sha1=", not one.
RECURSIVE TrimAllPrefixes(_)
TrimAllPrefixes(s) ==
    IF HasPrefix(s, Sha1Prefix) THEN TrimAllPrefixes(SubSeq(s, 6, Len(s))) ELSE s

CheckPayloadSignatureTrimAll(pld, secret, signature) ==
    LET expectedMAC == HmacSha1Hex(secret, pld)
    IN  IF TrimAllPrefixes(signature) /= expectedMAC
        THEN [mac |-> expectedMAC, err |-> SignatureError(expectedMAC)]
        ELSE [mac |-> expectedMAC, err |-> NoErr]

CheckPayloadSignature(pld, secret, signature) ==
    LET sig == IF HasPrefix(signature, Sha1Prefix)
               THEN SubSeq(signature, 6, Len(signature))
               ELSE signature
        expectedMAC == HmacSha1Hex(secret, pld)
    IN  IF sig /= expectedMAC                       \* !hmac.Equal
        THEN [mac |-> expectedMAC, err |-> SignatureError(expectedMAC)]
        ELSE [mac |-> expectedMAC, err |-> NoErr]

(***************************************************************************)
(* regexp.MatchString, exact on patterns made of literal characters with   *)
(* an optional leading ^ and trailing $, and on patterns that do not       *)
(* compile because a parenthesis is left open.                             *)
(***************************************************************************)

Count(s, c) == Cardinality({i \in 1..Len(s) : s[i] = c})

RegexpMatchString(pattern, s) ==
    IF Count(pattern, "(") /= Count(pattern, ")")
    THEN [rv |-> FALSE, err |-> RegexpError(pattern)]
    ELSE LET atStart == pattern /= <<>> /\ Head(pattern) = "^"
             p1      == IF atStart THEN Tail(pattern) ELSE pattern
             atEnd   == p1 /= <<>> /\ p1[Len(p1)] = "$"
             lit     == IF atEnd THEN SubSeq(p1, 1, Len(p1) - 1) ELSE p1
             starts  == {i \in 1..(Len(s) - Len(lit) + 1) :
                            SubSeq(s, i, i + Len(lit) - 1) = lit}
         IN  [rv  |-> \E i \in starts :
                         /\ (atStart => i = 1)
                         /\ (atEnd => i + Len(lit) - 1 = Len(s)),
              err |-> NoErr]

(***************************************************************************)
(* Rules, AndRule, OrRule, NotRule, MatchRule (rules.go).  An evaluation   *)
(* yields the returned pair (rv, err), or a panic, and the trace of the    *)
(* positions of the rule tree on which Evaluate was called, in call order. *)
(***************************************************************************)

MatchValue == "value"

MatchRegex == "regex"

MatchHashSHA1 == "payload-hash-sha1"

Ret(rv, err, trace) == [rv |-> rv, err |-> err, panic |-> FALSE, trace |-> trace]

Panicked(trace) == [rv |-> FALSE, err |-> NoErr, panic |-> TRUE, trace |-> trace]

MatchRuleEvaluate(r, hdrs, qry, pld, bdy, pos) ==
    LET a == ArgumentGet(r.Parameter, hdrs, qry, pld) IN
    IF a.panic THEN Panicked(<<pos>>)
    ELSE IF a.ok THEN
        CASE r.Type = MatchValue -> Ret(a.s = r.Value, NoErr, <<pos>>)
          [] r.Type = MatchRegex ->
                LET m == RegexpMatchString(r.Regex, a.s)
                IN  Ret(m.rv, m.err, <<pos>>)
          [] r.Type = MatchHashSHA1 ->
                LET c == CheckPayloadSignature(bdy, r.Secret, a.s)
                IN  Ret(c.err = NoErr, c.err, <<pos>>)
          [] OTHER -> Ret(FALSE, NoErr, <<pos>>)
    ELSE Ret(FALSE, NoErr, <<pos>>)

RECURSIVE RulesEvaluate(_, _, _, _, _, _)
RECURSIVE AndLoop(_, _, _, _, _, _, _, _)
RECURSIVE OrLoop(_, _, _, _, _, _, _, _)

\* The loop of AndRule.Evaluate from child i on; res is true on entry.
AndLoop(r, i, hdrs, qry, pld, bdy, pos, trace) ==
    IF i > Len(r) THEN Ret(TRUE, NoErr, trace)
    ELSE LET c == RulesEvaluate(r[i], hdrs, qry, pld, bdy, Append(pos, i))
             t == trace \o c.trace
         IN  IF c.panic THEN Panicked(t)
             ELSE IF c.err /= NoErr THEN Ret(FALSE, c.err, t)
             ELSE IF ~c.rv THEN Ret(FALSE, NoErr, t)
             ELSE AndLoop(r, i + 1, hdrs, qry, pld, bdy, pos, t)

\* A faulty variant of AndRule.Evaluate that does not return at the first
\* false child.
RECURSIVE AndLoopNoStop(_, _, _, _, _, _, _, _, _)
AndLoopNoStop(r, i, hdrs, qry, pld, bdy, pos, res, trace) ==
    IF i > Len(r) THEN Ret(res, NoErr, trace)
    ELSE LET c == RulesEvaluate(r[i], hdrs, qry, pld, bdy, Append(pos, i))
             t == trace \o c.trace
         IN  IF c.panic THEN Panicked(t)
             ELSE IF c.err /= NoErr THEN Ret(FALSE, c.err, t)
             ELSE AndLoopNoStop(r, i + 1, hdrs, qry, pld, bdy, pos, res /\ c.rv, t)

AndRuleEvaluateNoStop(r, hdrs, qry, pld, bdy, pos) ==
    AndLoopNoStop(r, 1, hdrs, qry, pld, bdy, pos, TRUE, <<pos>>)

AndRuleEvaluate(r, hdrs, qry, pld, bdy, pos) ==
    AndLoop(r, 1, hdrs, qry, pld, bdy, pos, <<pos>>)

\* The loop of OrRule.Evaluate from child i on; res is false on entry.
OrLoop(r, i, hdrs, qry, pld, bdy, pos, trace) ==
    IF i > Len(r) THEN Ret(FALSE, NoErr, trace)
    ELSE LET c == RulesEvaluate(r[i], hdrs, qry, pld, bdy, Append(pos, i))
             t == trace \o c.trace
         IN  IF c.panic THEN Panicked(t)
             ELSE IF c.err /= NoErr THEN Ret(FALSE, c.err, t)
             ELSE IF c.rv THEN Ret(TRUE, NoErr, t)
             ELSE OrLoop(r, i + 1, hdrs, qry, pld, bdy, pos, t)

\* A faulty variant of OrRule.Evaluate that goes on to the next child when a
\* child returns an error.
RECURSIVE OrLoopSkipError(_, _, _, _, _, _, _, _)
OrLoopSkipError(r, i, hdrs, qry, pld, bdy, pos, trace) ==
    IF i > Len(r) THEN Ret(FALSE, NoErr, trace)
    ELSE LET c == RulesEvaluate(r[i], hdrs, qry, pld, bdy, Append(pos, i))
             t == trace \o c.trace
         IN  IF c.panic THEN Panicked(t)
             ELSE IF c.err = NoErr /\ c.rv THEN Ret(TRUE, NoErr, t)
             ELSE OrLoopSkipError(r, i + 1, hdrs, qry, pld, bdy, pos, t)

OrRuleEvaluateSkipError(r, hdrs, qry, pld, bdy, pos) ==
    OrLoopSkipError(r, 1, hdrs, qry, pld, bdy, pos, <<pos>>)

OrRuleEvaluate(r, hdrs, qry, pld, bdy, pos) ==
    OrLoop(r, 1, hdrs, qry, pld, bdy, pos, <<pos>>)

\* NotRule.Evaluate calls Rules(r).Evaluate on the same node: return !rv, err
NotRuleEvaluate(r, hdrs, qry, pld, bdy, pos) ==
    LET c == RulesEvaluate(r, hdrs, qry, pld, bdy, Append(pos, 1))
    IN  IF c.panic THEN Panicked(<<pos>> \o c.trace)
        ELSE Ret(~c.rv, c.err, <<pos>> \o c.trace)

Rules(and, or, not, match) == [And |-> and, Or |-> or, Not |-> not, Match |-> match]

RulesEvaluate(r, hdrs, qry, pld, bdy, pos) ==
    IF r.And /= <<>> THEN AndRuleEvaluate(r.And[1], hdrs, qry, pld, bdy, pos)
    ELSE IF r.Or /= <<>> THEN OrRuleEvaluate(r.Or[1], hdrs, qry, pld, bdy, pos)
    ELSE IF r.Not /= <<>> THEN NotRuleEvaluate(r.Not[1], hdrs, qry, pld, bdy, pos)
    ELSE IF r.Match /= <<>> THEN MatchRuleEvaluate(r.Match[1], hdrs, qry, pld, bdy, pos)
    ELSE Ret(FALSE, NoErr, <<pos>>)

(***************************************************************************)
(* Hook: ParseJSONParameters, ExtractCommandArguments,                     *)
(* ExtractCommandArgumentsForEnv                                           *)
(***************************************************************************)

EnvNamespace == <<"H", "O", "O", "K", "_">>

\* The loop of ParseJSONParameters from argument i on, over the trees as the
\* earlier arguments left them.  The result carries the trees as the call
\* leaves them and the index "at" of the argument at which it stopped.
RECURSIVE ParseJSONLoop(_, _, _, _, _)
ParseJSONLoop(args, i, hdrs, qry, pld) ==
    LET out(err, panic) == [err |-> err, panic |-> panic, at |-> i,
                            headers |-> hdrs, query |-> qry, payload |-> pld]
    IN
    IF i > Len(args) THEN out(NoErr, FALSE)
    ELSE LET a == ArgumentGet(args[i], hdrs, qry, pld) IN
         IF a.panic THEN out(NoErr, TRUE)
         ELSE IF ~a.ok THEN out(ArgumentError(args[i]), FALSE)
         ELSE LET d == DecodeObject(a.s) IN
              IF d.err THEN out(ParseError, FALSE)
              ELSE LET source == CASE args[i].Source = SourceHeader  -> hdrs
                                   [] args[i].Source = SourcePayload -> pld
                                   [] args[i].Source = SourceQuery   -> qry
                                   [] OTHER -> <<>>
                   IN  IF source = <<>> THEN out(SourceError(args[i]), FALSE)
                       ELSE LET r == ReplaceParameter(args[i].Name,
                                                      PtrMap(source[1]), d.v)
                                n == <<r.params.m>>
                            IN  IF r.panic THEN out(NoErr, TRUE)
                                ELSE ParseJSONLoop(args, i + 1,
                                        IF args[i].Source = SourceHeader THEN n ELSE hdrs,
                                        IF args[i].Source = SourceQuery THEN n ELSE qry,
                                        IF args[i].Source = SourcePayload THEN n ELSE pld)

ParseJSONParameters(h, hdrs, qry, pld) ==
    ParseJSONLoop(h.JSONStringParameters, 1, hdrs, qry, pld)

RECURSIVE ExtractArgsLoop(_, _, _, _, _, _)
ExtractArgsLoop(decl, i, args, hdrs, qry, pld) ==
    IF i > Len(decl) THEN [args |-> args, err |-> NoErr, panic |-> FALSE]
    ELSE LET a == ArgumentGet(decl[i], hdrs, qry, pld) IN
         IF a.panic THEN [args |-> args, err |-> NoErr, panic |-> TRUE]
         ELSE IF a.ok THEN ExtractArgsLoop(decl, i + 1, Append(args, a.s), hdrs, qry, pld)
         ELSE [args |-> Append(args, <<>>), err |-> ArgumentError(decl[i]),
               panic |-> FALSE]

ExtractCommandArguments(h, hdrs, qry, pld) ==
    ExtractArgsLoop(h.PassArgumentsToCommand, 1, <<h.ExecuteCommand>>, hdrs, qry, pld)

RECURSIVE ExtractEnvLoop(_, _, _, _, _, _)
ExtractEnvLoop(decl, i, args, hdrs, qry, pld) ==
    IF i > Len(decl) THEN [args |-> args, err |-> NoErr, panic |-> FALSE]
    ELSE LET a == ArgumentGet(decl[i], hdrs, qry, pld) IN
         IF a.panic THEN [args |-> args, err |-> NoErr, panic |-> TRUE]
         ELSE IF a.ok
         THEN ExtractEnvLoop(decl, i + 1,
                  Append(args, EnvNamespace \o decl[i].Name \o <<"=">> \o a.s),
                  hdrs, qry, pld)
         ELSE [args |-> args, err |-> ArgumentError(decl[i]), panic |-> FALSE]

ExtractCommandArgumentsForEnv(h, hdrs, qry, pld) ==
    ExtractEnvLoop(h.PassEnvironmentToCommand, 1, <<>>, hdrs, qry, pld)

(***************************************************************************)
(* The requests, rules and hooks the operations are applied to             *)
(***************************************************************************)

MaxChildren == 2

MaxArgs == 2

MaxMutations == 1

\* All sequences over S of length at most n.
SeqsUpTo(S, n) == UNION {[1..m -> S] : m \in 0..n}

GoodSig == Sha1Prefix \o HmacSha1Hex("s", "hello")

JsonB1 == <<"{", DQ, "b", DQ, ":", "1", "}">>

TreeAB ==
    (<<"a">> :> Map(<<"b">> :> Num(<<"1">>))) @@ (<<"r", "e", "f">> :> Str(<<"m", "a", "i", "n">>))

TreeSeq ==
    (<<"l">> :> Slice(<<Str(<<"x">>), Map(<<"b">> :> Num(<<"1">>))>>))
    @@ (<<"a">> :> Str(<<"x">>)) @@ (<<"e">> :> Slice(<<>>)) @@ (<<"r", "e", "f">> :> Str(<<"d", "e", "v">>))

TreeJson ==
    (<<"j">> :> Str(JsonB1)) @@ (<<"n">> :> Nil) @@ (<<"a">> :> Map(<<"j">> :> Str(JsonB1)))
    @@ (<<"t">> :> Bool(TRUE))

HeadersGood == (<<"s", "i", "g">> :> Str(GoodSig)) @@ (<<"j">> :> Str(<<"{", DQ, "c", DQ, ":", "[", "1", ",", DQ, "x", DQ, "]", "}">>))

HeadersBad == (<<"s", "i", "g">> :> Str(Sha1Prefix \o <<"0", "0", "f", "0">>))

QueryJ == (<<"j">> :> Str(<<"n", "u", "l", "l">>)) @@ (<<"q">> :> Str(<<"[", "1", "]">>))

Request(hdrs, qry, pld, bdy) ==
    [headers |-> hdrs, query |-> qry, payload |-> pld, body |-> bdy]

Requests ==
    { Request(<<HeadersGood>>, <<QueryJ>>, <<TreeAB>>, "hello"),
      Request(<<HeadersBad>>, <<>>, <<TreeSeq>>, "hello"),
      Request(<<HeadersGood>>, <<EmptyMap>>, <<TreeJson>>, "bye"),
      Request(<<>>, <<QueryJ>>, <<>>, "hello") }

Paths ==
    { <<>>, <<"a">>, <<"b">>, <<"a", ".", "b">>, <<"a", ".", "c">>, <<"a", ".", "b", ".", "c">>, <<"a", ".", "b", ".", "c", ".", "d">>, <<"a", ".">>, <<"z", "z", ".", "b">>, <<"r", "e", "f">>, <<"r", "e", "f", ".", "x">>,
      <<"n">>, <<"n", ".", "b">>, <<"j">>, <<"t", ".", "x">>, <<"e">>, <<"e", ".", "0">>, <<"l">>, <<"l", ".", "0">>, <<"l", ".", "1">>, <<"l", ".", "2">>, <<"l", ".", "x">>, <<"l", ".", "0", "1", ".", "b">>,
      <<"l", ".", "0", ".", "b">>, <<"l", ".", "1", ".", "b">>, <<"l", ".", "1", ".", "c">>, <<"l", ".", "9", "2", "2", "3", "3", "7", "2", "0", "3", "6", "8", "5", "4", "7", "7", "5", "8", "0", "7">>, <<"l", ".", "9", "2", "2", "3", "3", "7", "2", "0", "3", "6", "8", "5", "4", "7", "7", "5", "8", "0", "8">>,
      <<"l", ".", "1", "8", "4", "4", "6", "7", "4", "4", "0", "7", "3", "7", "0", "9", "5", "5", "1", "6", "1", "5">>, <<"l", ".", "1", "8", "4", "4", "6", "7", "4", "4", "0", "7", "3", "7", "0", "9", "5", "5", "1", "6", "1", "6">>,
      <<"0">>, <<"1">>, <<"2">>, <<"0", "1">>, <<"-", "1">>, <<"1", ".", "b">>, <<"1", ".", "c">>, <<"0", ".", "b">>, <<"x">>,
      <<"9", "2", "2", "3", "3", "7", "2", "0", "3", "6", "8", "5", "4", "7", "7", "5", "8", "0", "7">>, <<"9", "2", "2", "3", "3", "7", "2", "0", "3", "6", "8", "5", "4", "7", "7", "5", "8", "0", "8">>, <<"9", "2", "2", "3", "3", "7", "2", "0", "3", "6", "8", "5", "4", "7", "7", "5", "8", "0", "8", ".", "b">>,
      <<"1", "8", "4", "4", "6", "7", "4", "4", "0", "7", "3", "7", "0", "9", "5", "5", "1", "6", "1", "5">>, <<"1", "8", "4", "4", "6", "7", "4", "4", "0", "7", "3", "7", "0", "9", "5", "5", "1", "6", "1", "6">> }

NewValues == { Num(<<"2">>), Map(<<"c">> :> Str(<<"y">>)) }

\* The values a request passes to GetParameter: the payload map and the
\* values directly under it.
Targets(pld) ==
    IF pld = <<>> THEN {Nil}
    ELSE {Map(pld[1])} \cup {pld[1][key] : key \in DOMAIN pld[1]}

MatchRule(type, regex, secret, value, parameter) ==
    [Type |-> type, Regex |-> regex, Secret |-> secret, Value |-> value,
     Parameter |-> parameter]

Leaf(m) == Rules(<<>>, <<>>, <<>>, <<m>>)

AndOf(children) == Rules(<<children>>, <<>>, <<>>, <<>>)

OrOf(children) == Rules(<<>>, <<children>>, <<>>, <<>>)

NotOf(child) == Rules(<<>>, <<>>, <<child>>, <<>>)

MatchSig == Leaf(MatchRule(MatchHashSHA1, <<>>, "s", <<>>, Argument(SourceHeader, <<"s", "i", "g">>)))

MatchRef == Leaf(MatchRule(MatchValue, <<>>, "", <<"m", "a", "i", "n">>, Argument(SourcePayload, <<"r", "e", "f">>)))

MatchAB == Leaf(MatchRule(MatchValue, <<>>, "", <<"1">>, Argument(SourcePayload, <<"a", ".", "b">>)))

MatchMissing == Leaf(MatchRule(MatchValue, <<>>, "", <<"x">>, Argument(SourcePayload, <<"z", "z">>)))

MatchBadRegex == Leaf(MatchRule(MatchRegex, <<"(">>, "", <<>>, Argument(SourcePayload, <<"r", "e", "f">>)))

\* The signatures offered to a signature rule as literal arguments.
Signatures ==
    LET mac == HmacSha1Hex("s", "hello") IN
    { mac, Sha1Prefix \o mac, Sha1Prefix \o Sha1Prefix \o mac, <<>>, Sha1Prefix,
      mac \o <<"0">>, Sha1Prefix \o HmacSha1Hex("k", "hello"),
      HmacSha1Hex("s", "bye"), <<"S", "H", "A", "1", "=">> \o mac }

MatchArguments ==
    { Argument(SourcePayload, <<"r", "e", "f">>), Argument(SourcePayload, <<"a", ".", "b">>),
      Argument(SourcePayload, <<"a", ".", "b", ".", "c">>), Argument(SourcePayload, <<"a", ".", "b", ".", "c", ".", "d">>),
      Argument(SourcePayload, <<"l", ".", "1", ".", "b">>), Argument(SourcePayload, <<"l", ".", "2">>),
      Argument(SourcePayload, <<"l", ".", "x">>), Argument(SourcePayload, <<"l", ".", "9", "2", "2", "3", "3", "7", "2", "0", "3", "6", "8", "5", "4", "7", "7", "5", "8", "0", "8">>),
      Argument(SourcePayload, <<"n", ".", "b">>), Argument(SourcePayload, <<"z", "z">>),
      Argument(SourceHeader, <<"s", "i", "g">>), Argument(SourceQuery, <<"q">>),
      Argument("", <<"r", "e", "f">>), Argument("body", <<"r", "e", "f">>),
      Argument(SourceString, <<"m", "a", "i", "n">>), Argument(SourceEntirePayload, <<>>) }

Leaves ==
    {Leaf(MatchRule(MatchHashSHA1, <<>>, secret, <<>>, Argument(SourceString, sig))) :
        secret \in {"s", "k"}, sig \in Signatures}
    \cup {Leaf(MatchRule(type, <<"^", "m", "a">>, "s", <<"m", "a", "i", "n">>, arg)) :
            type \in {MatchValue, MatchRegex, MatchHashSHA1, ""}, arg \in MatchArguments}
    \cup {MatchSig, MatchRef, MatchAB, MatchMissing, MatchBadRegex}

ChildRules ==
    {MatchSig, MatchRef, MatchAB, MatchMissing, MatchBadRegex, NotOf(MatchSig)}

RuleSet ==
    Leaves
    \cup {AndOf(c) : c \in SeqsUpTo(ChildRules, MaxChildren)}
    \cup {OrOf(c) : c \in SeqsUpTo(ChildRules, MaxChildren)}
    \cup {NotOf(c) : c \in ChildRules \cup {AndOf(<<MatchSig, MatchRef>>),
                                           OrOf(<<MatchMissing, MatchBadRegex>>)}}
    \cup { AndOf(<<OrOf(<<MatchMissing, MatchRef>>), AndOf(<<>>), MatchSig, MatchAB>>),
           OrOf(<<AndOf(<<MatchRef, MatchMissing>>), OrOf(<<>>), MatchBadRegex, MatchRef>>),
           Rules(<<>>, <<>>, <<>>, <<>>),
           Rules(<<<<MatchMissing>>>>, <<<<MatchRef>>>>, <<MatchMissing>>, MatchRef.Match),
           Rules(<<>>, <<<<MatchRef>>>>, <<MatchRef>>, MatchMissing.Match),
           Rules(<<>>, <<>>, <<MatchRef>>, MatchRef.Match) }

Hook(exe, passArgs, passEnv, jsonArgs) ==
    [ExecuteCommand |-> exe, PassArgumentsToCommand |-> passArgs,
     PassEnvironmentToCommand |-> passEnv, JSONStringParameters |-> jsonArgs]

CommandArguments ==
    { Argument(SourcePayload, <<"r", "e", "f">>), Argument(SourcePayload, <<"a", ".", "b">>),
      Argument(SourcePayload, <<"l">>), Argument(SourcePayload, <<"z", "z">>),
      Argument(SourceHeader, <<"s", "i", "g">>), Argument(SourceString, <<"x">>),
      Argument(SourceEntireQuery, <<>>), Argument("", <<"r", "e", "f">>) }

JSONArguments ==
    { Argument(SourcePayload, <<"j">>), Argument(SourcePayload, <<"a", ".", "j">>),
      Argument(SourcePayload, <<"r", "e", "f">>), Argument(SourcePayload, <<"z", "z">>),
      Argument(SourceHeader, <<"j">>), Argument(SourceQuery, <<"j">>),
      Argument(SourceString, JsonB1), Argument("", <<"j">>) }

Executable == <<"/", "b", "i", "n", "/", "x">>

(***************************************************************************)
(* The state machine: a request arrives with its trees (Init); the caller  *)
(* applies one operation at a time to them and takes its result (Return).  *)
(* An operation that panics ends the request.                              *)
(***************************************************************************)

Idle == [op |-> "idle"]

Init ==
    /\ \E r \in Requests :
        /\ headers = r.headers
        /\ query = r.query
        /\ payload = r.payload
        /\ body = r.body
    /\ last = Idle
    /\ mutations = 0

Evaluate(rule) ==
    /\ last.op = "idle"
    /\ last' = [op |-> "Evaluate", rule |-> rule,
                out |-> RulesEvaluate(rule, headers, query, payload, body, <<>>)]
    /\ UNCHANGED <<headers, query, payload, body, mutations>>

GetParameterCall(s, params) ==
    /\ last.op = "idle"
    /\ last' = [op |-> "GetParameter", s |-> s, params |-> params,
                out |-> GetParameter(s, params)]
    /\ UNCHANGED <<headers, query, payload, body, mutations>>

\* ReplaceParameter on the payload through its pointer, as its comment asks
\* and as ParseJSONParameters calls it.
ReplaceParameterCall(s, value) ==
    /\ last.op = "idle"
    /\ mutations < MaxMutations
    /\ payload /= <<>>
    /\ LET out == ReplaceParameter(s, PtrMap(payload[1]), value)
       IN  /\ last' = [op |-> "ReplaceParameter", s |-> s, params |-> PtrMap(payload[1]),
                       value |-> value, out |-> out]
           /\ payload' = <<out.params.m>>
    /\ mutations' = mutations + 1
    /\ UNCHANGED <<headers, query, body>>

\* ReplaceParameter on a value directly under the payload map, as the
\* recursion of ReplaceParameter calls it.
ReplaceParameterInner(s, key, value) ==
    /\ last.op = "idle"
    /\ mutations < MaxMutations
    /\ payload /= <<>>
    /\ key \in DOMAIN payload[1]
    /\ LET out == ReplaceParameter(s, payload[1][key], value)
       IN  /\ last' = [op |-> "ReplaceParameter", s |-> s, params |-> payload[1][key],
                       value |-> value, out |-> out]
           /\ payload' = <<[payload[1] EXCEPT ![key] = out.params]>>
    /\ mutations' = mutations + 1
    /\ UNCHANGED <<headers, query, body>>

ParseJSONParametersCall(h) ==
    /\ last.op = "idle"
    /\ mutations < MaxMutations
    /\ LET out == ParseJSONParameters(h, headers, query, payload)
       IN  /\ last' = [op |-> "ParseJSONParameters", hook |-> h,
                       before |-> Request(headers, query, payload, body), out |-> out]
           /\ headers' = out.headers
           /\ query' = out.query
           /\ payload' = out.payload
    /\ mutations' = mutations + 1
    /\ UNCHANGED body

ExtractCommandArgumentsCall(h) ==
    /\ last.op = "idle"
    /\ last' = [op |-> "ExtractCommandArguments", hook |-> h,
                out |-> ExtractCommandArguments(h, headers, query, payload)]
    /\ UNCHANGED <<headers, query, payload, body, mutations>>

ExtractCommandArgumentsForEnvCall(h) ==
    /\ last.op = "idle"
    /\ last' = [op |-> "ExtractCommandArgumentsForEnv", hook |-> h,
                out |-> ExtractCommandArgumentsForEnv(h, headers, query, payload)]
    /\ UNCHANGED <<headers, query, payload, body, mutations>>

\* The caller takes the result of an operation that returned.
Return ==
    /\ last.op /= "idle"
    /\ ~last.out.panic
    /\ last' = Idle
    /\ UNCHANGED <<headers, query, payload, body, mutations>>

Next ==
    \/ \E rule \in RuleSet : Evaluate(rule)
    \/ \E s \in Paths : \E params \in Targets(payload) : GetParameterCall(s, params)
    \/ \E s \in Paths : \E value \in NewValues : ReplaceParameterCall(s, value)
    \/ \E s \in Paths : \E key \in {<<"a">>, <<"l">>, <<"n">>} : \E value \in NewValues :
          ReplaceParameterInner(s, key, value)
    \/ \E args \in SeqsUpTo(JSONArguments, MaxArgs) :
          ParseJSONParametersCall(Hook(Executable, <<>>, <<>>, args))
    \/ \E args \in SeqsUpTo(CommandArguments, MaxArgs) :
          ExtractCommandArgumentsCall(Hook(Executable, args, <<>>, <<>>))
    \/ \E args \in SeqsUpTo(CommandArguments, MaxArgs) :
          ExtractCommandArgumentsForEnvCall(Hook(Executable, <<>>, args, <<>>))
    \/ Return

Spec == Init /\ [][Next]_vars

\* The handling of one request up to the trigger decision: the hook's JSON
\* parameters are spliced into the trees, then its rule is evaluated.
NextRules ==
    \/ \E args \in SeqsUpTo(JSONArguments, MaxArgs) :
          ParseJSONParametersCall(Hook(Executable, <<>>, <<>>, args))
    \/ \E rule \in RuleSet : Evaluate(rule)
    \/ Return

RuleSpec == Init /\ [][NextRules]_vars

(***************************************************************************)
(* What the specification of the package says of a path and of an          *)
(* argument, stated without the code's traversal: these are the reference  *)
(* the claims below compare the operations with.                           *)
(***************************************************************************)

RECURSIVE StripZeros(_)
StripZeros(d) == IF Len(d) > 1 /\ Head(d) = "0" THEN StripZeros(Tail(d)) ELSE d

RECURSIVE SmallValue(_)
SmallValue(d) ==
    IF d = <<>> THEN 0
    ELSE SmallValue(SubSeq(d, 1, Len(d) - 1)) * 10 + DigitVal(d[Len(d)])

\* seg is a decimal numeral of a number below n, for n up to 10000.
IsIndexBelow(seg, n) ==
    /\ seg /= <<>>
    /\ \A i \in 1..Len(seg) : seg[i] \in Digits
    /\ Len(StripZeros(seg)) <= 4
    /\ SmallValue(StripZeros(seg)) < n

IndexOf(seg) == SmallValue(StripZeros(seg)) + 1

\* Every segment of path s names a key or an index present in the tree.
RECURSIVE Resolves(_, _)
Resolves(s, node) ==
    LET p == SplitN2(s) IN
    CASE node.k = "map" ->
            /\ p[1] \in DOMAIN node.m
            /\ (Len(p) = 1 \/ Resolves(p[2], node.m[p[1]]))
      [] node.k = "slice" ->
            /\ IsIndexBelow(p[1], Len(node.l))
            /\ (Len(p) = 1 \/ Resolves(p[2], node.l[IndexOf(p[1])]))
      [] OTHER -> FALSE

\* The last segment of a path that resolves is a key of a Mapping.
RECURSIVE EndsAtMappingKey(_, _)
EndsAtMappingKey(s, node) ==
    LET p == SplitN2(s) IN
    CASE node.k = "map" ->
            /\ p[1] \in DOMAIN node.m
            /\ (Len(p) = 1 \/ EndsAtMappingKey(p[2], node.m[p[1]]))
      [] node.k = "slice" ->
            /\ IsIndexBelow(p[1], Len(node.l))
            /\ Len(p) > 1
            /\ EndsAtMappingKey(p[2], node.l[IndexOf(p[1])])
      [] OTHER -> FALSE

SpliceSources == {SourceHeader, SourceQuery, SourcePayload}

WholeSources == {SourceString, SourceEntirePayload, SourceEntireQuery, SourceEntireHeaders}

SourceTree(source, hdrs, qry, pld) ==
    CASE source = SourceHeader  -> hdrs
      [] source = SourceQuery   -> qry
      [] source = SourcePayload -> pld
      [] OTHER -> <<>>

ArgumentResolves(arg, hdrs, qry, pld) ==
    \/ arg.Source \in WholeSources
    \/ /\ SourceTree(arg.Source, hdrs, qry, pld) /= <<>>
       /\ Resolves(arg.Name, Map(SourceTree(arg.Source, hdrs, qry, pld)[1]))

\* Path q is path s or lies below it.
AtOrBelow(q, s) == q = s \/ HasPrefix(q, s \o <<".">>)

\* A *map[string]interface{} read as the tree it points to.
AsTree(params) == IF params.k = "ptr" THEN Map(params.m) ELSE params

IsMatchLeaf(r) == r.And = <<>> /\ r.Or = <<>> /\ r.Not = <<>> /\ r.Match /= <<>>

IsNotNode(r) == r.And = <<>> /\ r.Or = <<>> /\ r.Not /= <<>>

IsOrNode(r) == r.And = <<>> /\ r.Or /= <<>>

\* Child i of the rule list ch, evaluated on its own on the request.
ChildResult(ch, i) == RulesEvaluate(ch[i], headers, query, payload, body, <<i>>)

\* How often Evaluate was called on child i of the evaluated rule, and the
\* calls made on child i or below it.
CallCount(trace, i) == Cardinality({n \in 1..Len(trace) : trace[n] = <<i>>})

CallsUnder(trace, i) ==
    {n \in 1..Len(trace) : trace[n] /= <<>> /\ trace[n][1] = i}

LeftToRight(trace) ==
    \A m, n \in 1..Len(trace) :
        (m < n /\ trace[m] /= <<>> /\ trace[n] /= <<>>) => trace[m][1] <= trace[n][1]

(***************************************************************************)
(* The claims                                                              *)
(***************************************************************************)

\* C1: NotRule.Evaluate returns (not b, nil) when its child returns (b, nil);
\* when the child returns an error, Not returns that same error and the
\* boolean it returns with it is the child's false, never true.
C1_NotKeepsErrorState ==
    (last.op = "Evaluate" /\ IsNotNode(last.rule)) =>
        LET c == RulesEvaluate(last.rule.Not[1], headers, query, payload, body, <<1>>)
        IN  ~c.panic =>
                /\ ~last.out.panic
                /\ last.out.err = c.err
                /\ (c.err = NoErr => last.out.rv = ~c.rv)
                /\ (c.err /= NoErr => ~last.out.rv)

\* C2: a Match rule of kind payload-hash-sha1 whose argument resolves to a
\* string sig returns (true, nil) exactly when sig, with one optional leading
\* "sha1=" removed, is the hex HMAC-SHA1 of the raw body under the secret; in
\* every other case it returns false with a SignatureError that carries the
\* computed digest.
C2_SignatureRule ==
    (last.op = "Evaluate" /\ IsMatchLeaf(last.rule)
        /\ last.rule.Match[1].Type = MatchHashSHA1) =>
        LET m        == last.rule.Match[1]
            a        == ArgumentGet(m.Parameter, headers, query, payload)
            expected == HmacSha1Hex(m.Secret, body)
        IN  (~a.panic /\ a.ok) =>
                /\ ~last.out.panic
                /\ IF a.s = expected \/ a.s = Sha1Prefix \o expected
                   THEN last.out.rv /\ last.out.err = NoErr
                   ELSE ~last.out.rv /\ last.out.err = SignatureError(expected)

\* A signature rule has accepted a header signature that carries the prefix.
C2_Witness ==
    /\ last.op = "Evaluate"
    /\ last.rule = MatchSig
    /\ headers /= <<>>
    /\ headers[1][<<"s", "i", "g">>].s = Sha1Prefix \o HmacSha1Hex("s", body)
    /\ last.out.rv
    /\ last.out.err = NoErr

\* C3: AndRule.Evaluate evaluates its children left to right and stops at the
\* first child that returns false or an error, returning (false, nil) or
\* (false, err) there, with no later child evaluated; it returns (true, nil)
\* iff every child returned (true, nil), the empty list included.
C3_AndShortCircuit ==
    (last.op = "Evaluate" /\ last.rule.And /= <<>>) =>
        LET ch      == last.rule.And[1]
            out     == last.out
            Good(i) == /\ ~ChildResult(ch, i).panic
                       /\ ChildResult(ch, i).err = NoErr
                       /\ ChildResult(ch, i).rv
            Stops   == {i \in 1..Len(ch) : ~Good(i)}
        IN  /\ LeftToRight(out.trace)
            /\ (~out.panic /\ out.rv /\ out.err = NoErr) <=> (Stops = {})
            /\ IF Stops = {}
               THEN \A i \in 1..Len(ch) : CallCount(out.trace, i) = 1
               ELSE LET k == CHOOSE k \in Stops : \A j \in Stops : k <= j
                    IN  /\ out.panic = ChildResult(ch, k).panic
                        /\ ~out.panic => (~out.rv /\ out.err = ChildResult(ch, k).err)
                        /\ \A i \in 1..k : CallCount(out.trace, i) = 1
                        /\ \A i \in (k + 1)..Len(ch) : CallsUnder(out.trace, i) = {}

\* And[signature rule, exact-value rule]: the signature rule has failed and
\* the exact-value rule after it was not evaluated.
C3_Witness ==
    /\ last.op = "Evaluate"
    /\ last.rule = AndOf(<<MatchSig, MatchRef>>)
    /\ ~last.out.rv
    /\ last.out.err.kind = "SignatureError"
    /\ last.out.trace = <<<<>>, <<1>>>>

\* C4: OrRule.Evaluate evaluates its children left to right and stops at the
\* first child that returns true or an error, returning (true, nil) or
\* (false, err) there, with no later child evaluated; it returns (false, nil)
\* iff every child returned (false, nil), the empty list included.  An error
\* of an earlier child wins over a true later child.
C4_OrShortCircuit ==
    (last.op = "Evaluate" /\ IsOrNode(last.rule)) =>
        LET ch      == last.rule.Or[1]
            out     == last.out
            Goes(i) == /\ ~ChildResult(ch, i).panic
                       /\ ChildResult(ch, i).err = NoErr
                       /\ ~ChildResult(ch, i).rv
            Stops   == {i \in 1..Len(ch) : ~Goes(i)}
        IN  /\ LeftToRight(out.trace)
            /\ (~out.panic /\ ~out.rv /\ out.err = NoErr) <=> (Stops = {})
            /\ IF Stops = {}
               THEN \A i \in 1..Len(ch) : CallCount(out.trace, i) = 1
               ELSE LET k == CHOOSE k \in Stops : \A j \in Stops : k <= j
                        c == ChildResult(ch, k)
                    IN  /\ out.panic = c.panic
                        /\ (~c.panic /\ c.err /= NoErr) => (~out.rv /\ out.err = c.err)
                        /\ (~c.panic /\ c.err = NoErr) => (out.rv /\ out.err = NoErr)
                        /\ \A i \in 1..k : CallCount(out.trace, i) = 1
                        /\ \A i \in (k + 1)..Len(ch) : CallsUnder(out.trace, i) = {}

\* Or[rule with an error, true rule]: the error is returned and the true rule
\* after it was not evaluated.
C4_Witness ==
    /\ last.op = "Evaluate"
    /\ last.rule = OrOf(<<MatchBadRegex, MatchRef>>)
    /\ RulesEvaluate(MatchRef, headers, query, payload, body, <<>>).rv
    /\ ~last.out.rv
    /\ last.out.err.kind = "regexp.Error"
    /\ last.out.trace = <<<<>>, <<1>>>>

\* C5: whatever the kind of a Match rule, if its argument does not resolve in
\* the selected tree (missing key, bad or out-of-range index, unset or unknown
\* source, segments left at a scalar), MatchRule.Evaluate returns exactly
\* (false, nil) and does not terminate abnormally.
C5_MatchSoftFailure ==
    (last.op = "Evaluate" /\ IsMatchLeaf(last.rule)
        /\ ~ArgumentResolves(last.rule.Match[1].Parameter, headers, query, payload)) =>
        /\ ~last.out.panic
        /\ ~last.out.rv
        /\ last.out.err = NoErr

\* C6: for a tree passed to Set by pointer, when Get(path, tree) finds a value at a key of a Mapping, Set(path,
\* tree, v) returns true, Get(path, tree) then returns (v, true), and Get of
\* every path that is not at or below path returns what it returned before.
C6_GetSetRoundTrip ==
    (last.op = "ReplaceParameter" /\ last.params.k = "ptr"
        /\ Resolves(last.s, AsTree(last.params))
        /\ EndsAtMappingKey(last.s, AsTree(last.params))) =>
        /\ ~last.out.panic
        /\ last.out.ret
        /\ GetParameter(last.s, AsTree(last.out.params)) = Found(last.value)
        /\ \A q \in Paths :
              ~AtOrBelow(q, last.s) =>
                  GetParameter(q, AsTree(last.out.params))
                      = GetParameter(q, AsTree(last.params))

\* C7: for a tree passed by pointer, Set(path, tree, v) returns true only if the final segment names a key
\* present in the terminal Mapping; otherwise it returns false without
\* raising and leaves the tree unchanged; after any Set every Mapping that
\* is not at or below path has the keys it had.
C7_SetNeverInserts ==
    (last.op = "ReplaceParameter" /\ last.params.k = "ptr") =>
        LET before == AsTree(last.params)
            after  == AsTree(last.out.params)
        IN  /\ ~last.out.panic
            /\ last.out.ret =>
                  (Resolves(last.s, before) /\ EndsAtMappingKey(last.s, before))
            /\ ~last.out.ret => after = before
            /\ before.k = "map" => (after.k = "map" /\ DOMAIN after.m = DOMAIN before.m)
            /\ \A q \in Paths :
                  (~AtOrBelow(q, last.s) /\ Resolves(q, before)
                      /\ GetParameter(q, before).v.k = "map") =>
                      /\ GetParameter(q, after).v.k = "map"
                      /\ DOMAIN GetParameter(q, after).v.m
                            = DOMAIN GetParameter(q, before).v.m

\* C8: Get on a Sequence of length n reads the leading segment as an unsigned
\* 64-bit decimal i; if it does not parse, or i >= n, or the sequence is
\* empty, Get returns found=false without raising; if i < n and no segment
\* remains, Get returns (element i, true).
C8_SequenceIndex ==
    (last.op = "GetParameter" /\ last.params.k = "slice") =>
        LET l   == last.params.l
            p   == SplitN2(last.s)
        IN  /\ ~IsIndexBelow(p[1], Len(l)) => (~last.out.panic /\ ~last.out.ok)
            /\ (IsIndexBelow(p[1], Len(l)) /\ Len(p) = 1) =>
                  last.out = Found(l[IndexOf(p[1])])

\* C9: ParseJSONParameters, at the first declared argument that fails, returns
\* SourceError whenever the Source is not header, url or payload, ArgumentError
\* when the Source is one of them but the path does not resolve to a string,
\* ParseError when the resolved string is not a JSON object; it returns no
\* error only if every argument was resolved, decoded and spliced.
C9_ParseJSONErrorKinds ==
    last.op = "ParseJSONParameters" =>
        LET out  == last.out
            args == last.hook.JSONStringParameters
        IN  /\ ~out.panic
            /\ out.err = NoErr =>
                  \A i \in 1..Len(args) :
                      /\ args[i].Source \in SpliceSources
                      /\ LET tree == SourceTree(args[i].Source,
                                                out.headers, out.query, out.payload)
                         IN  /\ tree /= <<>>
                             /\ Resolves(args[i].Name, Map(tree[1]))
                             /\ IsMap(GetParameter(args[i].Name, Map(tree[1])).v)
            /\ out.err /= NoErr =>
                  LET a == args[out.at] IN
                  IF a.Source \notin SpliceSources
                  THEN out.err = SourceError(a)
                  ELSE IF ~ArgumentResolves(a, out.headers, out.query, out.payload)
                  THEN out.err = ArgumentError(a)
                  ELSE /\ out.err = ParseError
                       /\ DecodeObject(ArgumentGet(a, out.headers, out.query,
                                                   out.payload).s).err

\* C10: ExtractCommandArguments returns a list that starts with the
\* executable; if every declared argument resolves it is [exe, v1, .., vn]
\* with no error; if ak is the first that does not resolve it is
\* [exe, v1, .., v(k-1), ""] with an ArgumentError naming ak.
C10_ExtractCommandArguments ==
    last.op = "ExtractCommandArguments" =>
        LET out    == last.out
            decl   == last.hook.PassArgumentsToCommand
            exe    == last.hook.ExecuteCommand
            val(i) == ArgumentGet(decl[i], headers, query, payload).s
            Unres  == {i \in 1..Len(decl) :
                          ~ArgumentResolves(decl[i], headers, query, payload)}
        IN  /\ ~out.panic
            /\ out.args[1] = exe
            /\ IF Unres = {}
               THEN /\ out.args = <<exe>> \o [i \in 1..Len(decl) |-> val(i)]
                    /\ out.err = NoErr
               ELSE LET k == CHOOSE k \in Unres : \A j \in Unres : k <= j
                    IN  /\ out.args = <<exe>> \o [i \in 1..(k - 1) |-> val(i)] \o <<<<>>>>
                        /\ out.err = ArgumentError(decl[k])

====
